---- MODULE Spec2Model ----
(***************************************************************************)
(* Model of lerobot/common/policies/act/configuration_act.py:              *)
(* the dataclass ActionChunkingTransformerConfig, its generated __init__   *)
(* (field defaults, default_factory maps), its __post_init__ validation,   *)
(* and what a caller can do with a constructed instance (the dataclass is  *)
(* not frozen, and its map fields are ordinary dicts).                     *)
(*                                                                         *)
(* Python values are modelled as follows.                                  *)
(*   str (vision_backbone)  a sequence of one-character strings            *)
(*   tuple / list           a record [kind, items]; == between a tuple and *)
(*                          a list is False whatever they hold             *)
(*   dict                   a heap cell; a field holds the cell's address  *)
(*   keyword argument       <<>> when omitted, <<v>> when supplied         *)
(***************************************************************************)
EXTENDS Integers, Sequences, FiniteSets, TLC

VARIABLES args, result, objs, heap, writes

vars == <<args, result, objs, heap, writes>>

(* ---------------------------- bounds -------------------------------- *)

\* longest camera_names sequence a caller supplies
MaxCams == 2
\* instances the caller keeps alive at once
MaxObjs == 2
\* caller writes (attribute assignments and in-place dict updates) per run
MaxWrites == 2

(* ------------------------- Python values ---------------------------- *)

PyTuple(s) == [kind |-> "tuple", items |-> s]

PyList(s) == [kind |-> "list", items |-> s]

\* variant: compares the names held, not the sequences
PyNeAsSets(a, b) == a.kind # b.kind \/ {a.items[i] : i \in DOMAIN a.items} # {b.items[i] : i \in DOMAIN b.items}

\* a != b for two sequence objects: a tuple never equals a list
PyNe(a, b) == a.kind # b.kind \/ a.items # b.items

\* set(x)
PySet(x) == {x.items[i] : i \in DOMAIN x.items}

\* len(x)
PyLen(x) == Len(x.items)

\* s.startswith(p)
StartsWith(s, p) == Len(s) >= Len(p) /\ SubSeq(s, 1, Len(p)) = p

Resnet == <<"r", "e", "s", "n", "e", "t">>

Resnet18 == Resnet \o <<"1", "8">>

Resnet34 == Resnet \o <<"3", "4">>

VitBase == <<"v", "i", "t", "_", "b", "a", "s", "e">>

Res == <<"r", "e", "s">>

(* --------------------------- the fields ------------------------------ *)

\* the fields __post_init__ reads
ValidatedFields == {"vision_backbone", "use_temporal_aggregation", "n_action_steps",
                    "chunk_size", "n_obs_steps", "camera_names"}

\* plain fields the model carries besides
OtherFields == {"state_dim", "action_dim", "use_vae"}

ShapeMaps == {"input_shapes", "output_shapes"}

ModeMaps == {"normalize_input_modes", "unnormalize_output_modes"}

\* the fields declared with field(default_factory=...)
MapFields == ShapeMaps \cup ModeMaps

\* the default_factory fields in declaration order
MapOrder == <<"input_shapes", "output_shapes", "normalize_input_modes",
              "unnormalize_output_modes">>

ScalarFields == ValidatedFields \cup OtherFields

FieldNames == ScalarFields \cup MapFields

\* the declared defaults of the plain fields
Default == [state_dim |-> 14,
            action_dim |-> 14,
            n_obs_steps |-> 1,
            camera_names |-> PyTuple(<<"top">>),
            chunk_size |-> 100,
            n_action_steps |-> 100,
            vision_backbone |-> Resnet18,
            use_temporal_aggregation |-> FALSE,
            use_vae |-> TRUE]

\* the dict literal each default_factory lambda builds
DefaultMap(m) ==
    CASE m = "input_shapes" ->
           [k \in {"observation.images.top", "observation.state"} |->
              IF k = "observation.state" THEN <<14>> ELSE <<3, 480, 640>>]
      [] m = "output_shapes" -> [k \in {"action"} |-> <<14>>]
      [] m = "normalize_input_modes" ->
           [k \in {"observation.image", "observation.state"} |-> "mean_std"]
      [] m = "unnormalize_output_modes" -> [k \in {"action"} |-> "mean_std"]

(* ------------------------ the caller's inputs ------------------------ *)

CameraNames == {"top", "left"}

\* the sequences of camera names of length 0 .. MaxCams
CameraSeqs == UNION {[1..n -> CameraNames] : n \in 0..MaxCams}

\* the values a caller supplies for a plain field (the declared default is
\* what omitting the argument gives; action_dim is always left to its default)
Values(n) ==
    CASE n = "vision_backbone" -> {Resnet34, VitBase, Res}
      [] n = "use_temporal_aggregation" -> {TRUE}
      [] n = "n_action_steps" -> {50, 150}
      [] n = "chunk_size" -> {50, 150}
      [] n = "n_obs_steps" -> {0, 2}
      [] n = "camera_names" -> {PyTuple(s) : s \in CameraSeqs} \cup {PyList(s) : s \in CameraSeqs}
      [] n = "state_dim" -> {7}
      [] n = "action_dim" -> {}
      [] n = "use_vae" -> {FALSE}

\* heap address of the dict the caller owns and may pass as map m: one dict of
\* shapes and one of modes, the first two cells of the heap
CallerDict(m) == IF m \in ShapeMaps THEN 1 ELSE 2

\* a keyword argument: omitted, or one of the values
Kw(S) == {<<>>} \cup {<<v>> : v \in S}

\* every call ActionChunkingTransformerConfig(**kwargs) of the model
ArgSpace == [vision_backbone : Kw(Values("vision_backbone")),
             use_temporal_aggregation : Kw(Values("use_temporal_aggregation")),
             n_action_steps : Kw(Values("n_action_steps")),
             chunk_size : Kw(Values("chunk_size")),
             n_obs_steps : Kw(Values("n_obs_steps")),
             camera_names : Kw(Values("camera_names")),
             state_dim : Kw(Values("state_dim")),
             action_dim : Kw(Values("action_dim")),
             use_vae : Kw(Values("use_vae")),
             input_shapes : Kw({CallerDict("input_shapes")}),
             output_shapes : Kw({CallerDict("output_shapes")}),
             normalize_input_modes : Kw({CallerDict("normalize_input_modes")}),
             unnormalize_output_modes : Kw({CallerDict("unnormalize_output_modes")})]

\* ActionChunkingTransformerConfig()
NoArgs == [n \in FieldNames |-> <<>>]

\* ActionChunkingTransformerConfig(camera_names=["top"])
TopArgs == [NoArgs EXCEPT !["camera_names"] = <<PyList(<<"top">>)>>]

\* the calls made while instances are kept alive
LifeArgs == {NoArgs,
             TopArgs,
             [n \in FieldNames |-> IF n \in MapFields THEN <<CallerDict(n)>> ELSE TopArgs[n]]}

(* ------------------------------ dicts -------------------------------- *)

\* d[k] = v
DictSet(d, k, v) == [x \in DOMAIN d \cup {k} |-> IF x = k THEN v ELSE d[x]]

\* del d[k]
DictDel(d, k) == [x \in DOMAIN d \ {k} |-> d[x]]

\* a heap cell: the dict and the expression that built it
Cell(origin, d) == [origin |-> origin, d |-> d]

\* the keys and values the caller writes into a map
MapKeys(m) == DOMAIN DefaultMap(m) \cup {"extra"}

MapValues(m) == IF m \in ShapeMaps THEN {<<7>>} ELSE {"min_max"}

(* ------------------------ generated __init__ ------------------------- *)

\* variant: one dict per field shared by every instance (a mutable default)
SharedDefault(h, m) ==
    IF \E r \in DOMAIN h : h[r].origin = m
    THEN [heap |-> h, ref |-> CHOOSE r \in DOMAIN h : h[r].origin = m]
    ELSE [heap |-> Append(h, Cell(m, DefaultMap(m))), ref |-> Len(h) + 1]

\* field(default_factory=lambda: {...}): every call builds a new dict
DefaultFactory(h, m) ==
    [heap |-> Append(h, Cell(m, DefaultMap(m))), ref |-> Len(h) + 1]

\* self.<map> = <argument> if supplied else default_factory(), in declaration order
RECURSIVE InitMaps(_, _, _, _)
InitMaps(i, a, f, h) ==
    IF i > Len(MapOrder) THEN [fields |-> f, heap |-> h]
    ELSE LET m == MapOrder[i]
         IN  IF a[m] = <<>>
             THEN LET n == DefaultFactory(h, m)
                  IN  InitMaps(i + 1, a, [f EXCEPT ![m] = n.ref], n.heap)
             ELSE InitMaps(i + 1, a, [f EXCEPT ![m] = a[m][1]], h)

\* variant: camera_names coerced to its declared type, a tuple
InitFieldsCoerced(a, h) ==
    InitMaps(1, a,
             [n \in FieldNames |->
                IF n \in MapFields THEN 0
                ELSE IF a[n] = <<>> THEN Default[n]
                ELSE IF n = "camera_names" THEN PyTuple(a[n][1].items) ELSE a[n][1]],
             h)

\* self.<field> = <argument> if supplied else <declared default>
InitFields(a, h) ==
    InitMaps(1, a,
             [n \in FieldNames |->
                IF n \in MapFields THEN 0
                ELSE IF a[n] = <<>> THEN Default[n] ELSE a[n][1]],
             h)

(* --------------------------- __post_init__ --------------------------- *)

\* variant: the fourth check written as n_obs_steps > 1
CheckFailsObsAbove(i, f) ==
    CASE i = 1 -> ~StartsWith(f.vision_backbone, Resnet)
      [] i = 2 -> f.use_temporal_aggregation
      [] i = 3 -> f.n_action_steps > f.chunk_size
      [] i = 4 -> f.n_obs_steps > 1
      [] i = 5 -> PyNe(f.camera_names, PyList(<<"top">>))
      [] i = 6 -> Cardinality(PySet(f.camera_names)) # PyLen(f.camera_names)

\* variant: the third check written as n_action_steps >= chunk_size
CheckFailsStrict(i, f) ==
    CASE i = 1 -> ~StartsWith(f.vision_backbone, Resnet)
      [] i = 2 -> f.use_temporal_aggregation
      [] i = 3 -> f.n_action_steps >= f.chunk_size
      [] i = 4 -> f.n_obs_steps # 1
      [] i = 5 -> PyNe(f.camera_names, PyList(<<"top">>))
      [] i = 6 -> Cardinality(PySet(f.camera_names)) # PyLen(f.camera_names)

\* the condition of the i-th `if` of __post_init__
CheckFails(i, f) ==
    CASE i = 1 -> ~StartsWith(f.vision_backbone, Resnet)
      [] i = 2 -> f.use_temporal_aggregation
      [] i = 3 -> f.n_action_steps > f.chunk_size
      [] i = 4 -> f.n_obs_steps # 1
      [] i = 5 -> PyNe(f.camera_names, PyList(<<"top">>))
      [] i = 6 -> Cardinality(PySet(f.camera_names)) # PyLen(f.camera_names)

\* variant: every check raises ValueError
CheckErrorAllValue(i) == "ValueError"

\* the exception the i-th `if` raises
CheckError(i) == IF i = 2 THEN "NotImplementedError" ELSE "ValueError"

\* variant: temporal aggregation checked before the backbone
CheckOrderAggregationFirst == <<2, 1, 3, 4, 5, 6>>

\* variant: duplicates checked before the exact match
CheckOrderDuplicatesFirst == <<1, 2, 3, 4, 6, 5>>

\* the order in which the `if`s are written
CheckOrder == <<1, 2, 3, 4, 5, 6>>

\* __post_init__ from its k-th `if` on; ev lists the checks evaluated so far
RECURSIVE PostInitFrom(_, _, _)
PostInitFrom(k, f, ev) ==
    IF k > Len(CheckOrder)
    THEN [status |-> "returned", error |-> "none", rule |-> 0, evaluated |-> ev,
          obj |-> 0]
    ELSE LET i == CheckOrder[k]
         IN  IF CheckFails(i, f)
             THEN [status |-> "raised", error |-> CheckError(i), rule |-> i,
                   evaluated |-> Append(ev, i), obj |-> 0]
             ELSE PostInitFrom(k + 1, f, Append(ev, i))

PostInit(f) == PostInitFrom(1, f, <<>>)

(* ----------------------------- actions ------------------------------- *)

Pending == [status |-> "pending", error |-> "none", rule |-> 0, evaluated |-> <<>>,
            obj |-> 0]

\* a new instance as the caller receives it
NewObject(a, f) ==
    [fields |-> f,
     validated |-> f,
     defaulted |-> {n \in FieldNames : a[n] = <<>>},
     assigned |-> {},
     mutated |-> {}]

\* ActionChunkingTransformerConfig(**a): __init__ stores the fields, then runs
\* __post_init__; the instance reaches the caller only if nothing is raised
\* (the dicts built for an instance that is never returned are garbage)
Construct(a) ==
    LET init == InitFields(a, heap)
        post == PostInit(init.fields)
    IN  /\ args' = a
        /\ IF post.status = "returned"
           THEN /\ objs' = Append(objs, NewObject(a, init.fields))
                /\ heap' = init.heap
                /\ result' = [post EXCEPT !.obj = Len(objs) + 1]
           ELSE /\ objs' = objs
                /\ heap' = heap
                /\ result' = post
        /\ UNCHANGED writes

\* the one constructor call of Spec, on the arguments drawn by Init
Call == result.status = "pending" /\ Construct(args)

\* a further constructor call while earlier instances are alive
CallAgain == \E a \in LifeArgs : Len(objs) < MaxObjs /\ Construct(a)

\* the values the caller assigns to a validated field of a live instance
AttrValues(n) ==
    CASE n = "vision_backbone" -> {VitBase}
      [] n = "use_temporal_aggregation" -> {TRUE}
      [] n = "n_action_steps" -> {150}
      [] n = "chunk_size" -> {50}
      [] n = "n_obs_steps" -> {2}
      [] n = "camera_names" -> {PyList(<<"left">>)}

\* variant: a setter that keeps n_action_steps within chunk_size
StoreAttrClamped(f, n, v) ==
    LET g == [f EXCEPT ![n] = v]
    IN  IF g.n_action_steps > g.chunk_size
        THEN [g EXCEPT !["n_action_steps"] = g.chunk_size]
        ELSE g

\* what object.__setattr__ stores: the dataclass is not frozen and defines no
\* __setattr__, so the value lands in the named field and nothing else runs
StoreAttr(f, n, v) == [f EXCEPT ![n] = v]

\* cfg.<n> = v
SetAttr(o, n, v) ==
    /\ writes < MaxWrites
    /\ objs' = [objs EXCEPT ![o].fields = StoreAttr(@, n, v),
                            ![o].assigned = @ \cup {n}]
    /\ writes' = writes + 1
    /\ UNCHANGED <<args, result, heap>>

\* cfg.<m>[k] = v
MapSetItem(o, m, k, v) ==
    /\ writes < MaxWrites
    /\ heap' = [heap EXCEPT ![objs[o].fields[m]].d = DictSet(@, k, v)]
    /\ objs' = [objs EXCEPT ![o].mutated = @ \cup {m}]
    /\ writes' = writes + 1
    /\ UNCHANGED <<args, result>>

\* del cfg.<m>[k]
MapDelItem(o, m, k) ==
    /\ writes < MaxWrites
    /\ k \in DOMAIN heap[objs[o].fields[m]].d
    /\ heap' = [heap EXCEPT ![objs[o].fields[m]].d = DictDel(@, k)]
    /\ objs' = [objs EXCEPT ![o].mutated = @ \cup {m}]
    /\ writes' = writes + 1
    /\ UNCHANGED <<args, result>>

Assign == \E o \in DOMAIN objs : \E n \in ValidatedFields : \E v \in AttrValues(n) :
            SetAttr(o, n, v)

Insert == \E o \in DOMAIN objs : \E m \in MapFields : \E k \in MapKeys(m) :
            \E v \in MapValues(m) : MapSetItem(o, m, k, v)

Remove == \E o \in DOMAIN objs : \E m \in MapFields : \E k \in MapKeys(m) :
            MapDelItem(o, m, k)

(* -------------------------- specifications --------------------------- *)

\* the dicts the caller owns before any call
CallerHeap == <<Cell("caller", [k \in {"observation.state"} |-> <<7>>]),
                Cell("caller", [k \in {"observation.state"} |-> "min_max"])>>

\* one constructor call on any arguments
Init ==
    /\ args \in ArgSpace
    /\ result = Pending
    /\ objs = <<>>
    /\ heap = CallerHeap
    /\ writes = 0

Next == Call

Spec == Init /\ [][Next]_vars

\* instances kept alive, constructed again, assigned to and updated in place
InitLife ==
    /\ args = NoArgs
    /\ result = Pending
    /\ objs = <<>>
    /\ heap = CallerHeap
    /\ writes = 0

NextLife == CallAgain \/ Assign \/ Insert \/ Remove

SpecLife == InitLife /\ [][NextLife]_vars

(* ------------------- the rules, as the specification states them ----- *)

\* the value the call gives field n: the argument, or the declared default
Given(n) == IF args[n] = <<>> THEN Default[n] ELSE args[n][1]

\* the rule numbered i holds of the field values g (g[n] for field n)
RuleHolds(i, g) ==
    CASE i = 1 -> /\ Len(g.vision_backbone) >= 6
                  /\ \A j \in 1..6 : g.vision_backbone[j] = Resnet[j]
      [] i = 2 -> g.use_temporal_aggregation = FALSE
      [] i = 3 -> g.n_action_steps <= g.chunk_size
      [] i = 4 -> g.n_obs_steps = 1
      [] i = 5 -> g.camera_names = PyList(<<"top">>)
      [] i = 6 -> \A j, k \in DOMAIN g.camera_names.items :
                     g.camera_names.items[j] = g.camera_names.items[k] => j = k

Rules == 1..6

AllRulesHold(g) == \A i \in Rules : RuleHolds(i, g)

\* the arguments of the call as field values
GivenFields == [n \in ScalarFields |-> Given(n)]

\* the lowest-numbered rule the call's values break (0 when none)
FirstBroken ==
    IF AllRulesHold(GivenFields) THEN 0
    ELSE CHOOSE i \in Rules : /\ ~RuleHolds(i, GivenFields)
                              /\ \A j \in 1..(i - 1) : RuleHolds(j, GivenFields)

\* the constructor call has ended
Done == result.status # "pending"

\* the instance the call returned
Returned == objs[result.obj]

\* the contents of map m of instance o
MapOf(o, m) == heap[objs[o].fields[m]].d

(* ------------------------------ C1 ----------------------------------- *)

\* C1 (as claimed): the call with no argument returns an instance, whose
\* state_dim, action_dim, chunk_size, n_action_steps, vision_backbone and
\* use_vae are 14, 14, 100, 100, "resnet18" and true.
C1_DefaultConstructs ==
    (Done /\ args = NoArgs) =>
        /\ result.status = "returned"
        /\ Returned.fields.state_dim = 14
        /\ Returned.fields.action_dim = 14
        /\ Returned.fields.chunk_size = 100
        /\ Returned.fields.n_action_steps = 100
        /\ Returned.fields.vision_backbone = Resnet18
        /\ Returned.fields.use_vae = TRUE

(* ------------------------------ C2 ----------------------------------- *)

C3_AllOrNothing ==
    Done =>
        /\ result.status = "raised" => (objs = <<>> /\ result.obj = 0)
        /\ result.status = "returned" =>
              (DOMAIN objs = {result.obj} /\ AllRulesHold(Returned.fields))

\* a returned instance built from supplied, non-default values
C3_Witness ==
    /\ result.status = "returned"
    /\ Returned.fields.n_action_steps = 50
    /\ Returned.fields.chunk_size = 150
    /\ Returned.fields.vision_backbone = Resnet34

(* ------------------------------ C4 ----------------------------------- *)

\* C4: when the call's values break at least one rule, the call raises the
\* error of the lowest-numbered broken rule (NotImplementedError for rule 2,
\* ValueError for the others) and evaluates the rules 1 .. that one, in order,
\* and none after it.
C4_FirstFailureWins ==
    (Done /\ FirstBroken # 0) =>
        /\ result.status = "raised"
        /\ result.rule = FirstBroken
        /\ result.error = (IF FirstBroken = 2 THEN "NotImplementedError" ELSE "ValueError")
        /\ result.evaluated = [j \in 1..FirstBroken |-> j]

\* a call that breaks rules 1, 2, 3 and 5 at once and is refused for rule 1
C4_Witness ==
    /\ Done
    /\ ~RuleHolds(1, GivenFields)
    /\ ~RuleHolds(2, GivenFields)
    /\ ~RuleHolds(3, GivenFields)
    /\ ~RuleHolds(5, GivenFields)
    /\ result.rule = 1
    /\ result.evaluated = <<1>>

(* ------------------------------ C5 ----------------------------------- *)

\* C5 (as claimed): with use_temporal_aggregation true the call raises
\* NotImplementedError whatever the other fields hold.
C5_AlwaysUnimplemented ==
    (Done /\ Given("use_temporal_aggregation")) =>
        (result.status = "raised" /\ result.error = "NotImplementedError")

\* C5 (amended): with use_temporal_aggregation true the call always raises;
\* it raises NotImplementedError whenever vision_backbone starts with
\* "resnet", whatever n_action_steps, chunk_size, n_obs_steps and camera_names
\* hold, and the backbone rule's ValueError otherwise.
C5_UnimplementedAfterBackbone ==
    (Done /\ Given("use_temporal_aggregation")) =>
        /\ result.status = "raised"
        /\ RuleHolds(1, GivenFields) =>
              (result.error = "NotImplementedError" /\ result.rule = 2)
        /\ ~RuleHolds(1, GivenFields) =>
              (result.error = "ValueError" /\ result.rule = 1)

\* temporal aggregation requested together with broken rules 3, 4 and 5
C5_Witness ==
    /\ Done
    /\ Given("use_temporal_aggregation")
    /\ RuleHolds(1, GivenFields)
    /\ ~RuleHolds(3, GivenFields)
    /\ ~RuleHolds(4, GivenFields)
    /\ ~RuleHolds(5, GivenFields)
    /\ result.error = "NotImplementedError"

(* ------------------------------ C6 ----------------------------------- *)

\* C6 (as claimed): with n_action_steps > chunk_size the call raises
\* ValueError whatever the other fields hold; with the other rules satisfied
\* n_action_steps <= chunk_size succeeds.
C6_AlwaysInvalidValue ==
    Done =>
        /\ ~RuleHolds(3, GivenFields) =>
              (result.status = "raised" /\ result.error = "ValueError")
        /\ AllRulesHold(GivenFields) => result.status = "returned"

\* C6 (amended): with n_action_steps > chunk_size the call always raises:
\* ValueError, except NotImplementedError when use_temporal_aggregation is
\* true and vision_backbone starts with "resnet"; with the other rules
\* satisfied n_action_steps == chunk_size and n_action_steps < chunk_size
\* succeed.
C6_InclusiveUpperBound ==
    Done =>
        /\ ~RuleHolds(3, GivenFields) =>
              /\ result.status = "raised"
              /\ result.error =
                    (IF RuleHolds(1, GivenFields) /\ ~RuleHolds(2, GivenFields)
                     THEN "NotImplementedError" ELSE "ValueError")
        /\ (\A i \in Rules \ {3} : RuleHolds(i, GivenFields)) =>
              (result.status = "returned" <=>
                  Given("n_action_steps") <= Given("chunk_size"))

\* n_action_steps equal to chunk_size, both supplied, accepted
C6_Witness ==
    /\ result.status = "returned"
    /\ args.n_action_steps = <<150>>
    /\ args.chunk_size = <<150>>

(* ------------------------------ C7 ----------------------------------- *)

\* the call's values satisfy every rule but the two on camera_names
OthersValid == \A i \in 1..4 : RuleHolds(i, GivenFields)

\* C7 (as claimed): with the other fields valid, ["top", "top"] is refused by
\* the duplicate rule, ["left"] by the exact-match rule, ["top"] is accepted.
C7_DuplicateRuleRaises ==
    (Done /\ OthersValid) =>
        /\ Given("camera_names") = PyList(<<"top", "top">>) =>
              (result.error = "ValueError" /\ result.rule = 6)
        /\ Given("camera_names") = PyList(<<"left">>) =>
              (result.error = "ValueError" /\ result.rule = 5)
        /\ Given("camera_names") = PyList(<<"top">>) => result.status = "returned"

\* C7 (amended): with the other fields valid, ["top", "top"] and ["left"] are
\* both refused with ValueError by the exact-match rule, and ["top"] is
\* accepted.
C7_ExactMatchRaises ==
    (Done /\ OthersValid) =>
        /\ Given("camera_names") = PyList(<<"top", "top">>) =>
              (result.error = "ValueError" /\ result.rule = 5)
        /\ Given("camera_names") = PyList(<<"left">>) =>
              (result.error = "ValueError" /\ result.rule = 5)
        /\ Given("camera_names") = PyList(<<"top">>) => result.status = "returned"

\* ["top", "top"] with everything else valid, refused
C7_Witness ==
    /\ Done
    /\ OthersValid
    /\ Given("camera_names") = PyList(<<"top", "top">>)
    /\ result.status = "raised"

(* ------------------------------ C8 ----------------------------------- *)

\* C8: when the call's values satisfy the six rules the call returns an
\* instance whose every field is the value supplied, or the declared default
\* when none was: plain fields by value, a supplied map as the very dict
\* passed, an omitted map as a dict holding the default entries.
C8_RoundTrip ==
    (Done /\ AllRulesHold(GivenFields)) =>
        /\ result.status = "returned"
        /\ \A n \in ScalarFields : Returned.fields[n] = Given(n)
        /\ \A m \in MapFields :
              IF args[m] = <<>>
              THEN MapOf(result.obj, m) = DefaultMap(m)
              ELSE Returned.fields[m] = args[m][1]

\* an accepted call that supplies some plain fields and some maps and leaves
\* the others to their defaults
C8_Witness ==
    /\ result.status = "returned"
    /\ args.state_dim = <<7>>
    /\ args.n_action_steps = <<50>>
    /\ args.input_shapes # <<>>
    /\ args.output_shapes = <<>>
    /\ args.use_vae = <<>>

(* ------------------------------ C9 ----------------------------------- *)

\* C9: a map an instance took by default is a dict of its own: no other
\* field of any instance refers to it, the caller's dicts are not it, and
\* until it is updated through that instance it holds the default entries,
\* whatever was done to the maps of instances built earlier or later.
C9_FreshDefaults ==
    \A o \in DOMAIN objs : \A m \in MapFields \cap objs[o].defaulted :
        /\ \A p \in DOMAIN objs : \A q \in MapFields :
              <<p, q>> # <<o, m>> => objs[p].fields[q] # objs[o].fields[m]
        /\ heap[objs[o].fields[m]].origin # "caller"
        /\ m \notin objs[o].mutated => MapOf(o, m) = DefaultMap(m)

\* two instances that both took input_shapes by default; the first one's
\* dict was updated in place, and the second, built afterwards or before,
\* still holds the default entries
C9_Witness ==
    /\ Len(objs) = 2
    /\ "input_shapes" \in objs[1].defaulted \cap objs[2].defaulted
    /\ "input_shapes" \in objs[1].mutated
    /\ MapOf(1, "input_shapes") # DefaultMap("input_shapes")
    /\ MapOf(2, "input_shapes") = DefaultMap("input_shapes")

(* ------------------------------ C10 ---------------------------------- *)

\* C10: no call ever raises the duplicate-entries error: whatever
\* camera_names and the other fields hold, the sixth check never fails.
C10_DuplicateErrorUnreachable == Done => result.rule # 6

\* camera_names with a repeated entry and everything else valid: refused,
\* but by the fifth check, the sixth never evaluated
C10_Witness ==
    /\ Done
    /\ OthersValid
    /\ ~RuleHolds(6, GivenFields)
    /\ result.rule = 5
    /\ result.evaluated = <<1, 2, 3, 4, 5>>

====
